---- MODULE Spec2Model ----
(***************************************************************************)
(* A model of backup2db.py: the version gate (iOSVersion,                  *)
(* is_backup_compatible), the two manifest resolvers                       *)
(* (find_ios_backup_file, get_app_folders_from_backup) and main.           *)
(*                                                                         *)
(* Python strings are sequences of one-character strings, so that split,   *)
(* int(), slicing, || and os.path.join are computed, not assumed.          *)
(* None is a record with none |-> TRUE; an exception that leaves a         *)
(* function is the field raised of the function's outcome.                 *)
(***************************************************************************)
EXTENDS Integers, Sequences, FiniteSets, TLC

VARIABLES
    info_plist,   \* Info.plist of the backup directory
    manifest_db,  \* Manifest.db of the backup directory
    disk,         \* the paths that exist on disk below the backup directory
    args,         \* argparse's namespace: path (-d) and bundle (-b)
    pc,           \* where the run is
    gate,         \* outcome of the last is_backup_compatible call
    res,          \* outcome of the last resolver call
    calls,        \* the functions main has called, in order
    out,          \* what main itself has printed, in order
    exit_code,    \* the code main ended with (meaningful when pc = "exited")
    open_conns    \* sqlite3 connections opened and not closed

vars == <<info_plist, manifest_db, disk, args, pc, gate, res, calls, out,
          exit_code, open_conns>>

----------------------------------------------------------------------------
(* Bounds of the model *)

\* longest "Product Version" string enumerated by the gate specification
MaxVerLen == 5
\* most rows of Files in the resolver specification
MaxRows == 2
\* most rows of Files in the specification of main
MainRows == 1
\* most connections left open before the resolver specification stops calling
MaxOpen == 2

----------------------------------------------------------------------------
(* Python values *)

None == [none |-> TRUE, v |-> <<>>]
Some(x) == [none |-> FALSE, v |-> x]

Min2(a, b) == IF a <= b THEN a ELSE b

\* s[:n]
Prefix(s, n) == SubSeq(s, 1, Min2(n, Len(s)))

Digits == {"0", "1", "2", "3", "4", "5", "6", "7", "8", "9"}

DigitVal(c) ==
    CASE c = "0" -> 0 [] c = "1" -> 1 [] c = "2" -> 2 [] c = "3" -> 3
      [] c = "4" -> 4 [] c = "5" -> 5 [] c = "6" -> 6 [] c = "7" -> 7
      [] c = "8" -> 8 [] c = "9" -> 9

\* whether int(s) accepts s (over the characters of VerChars: digits only,
\* at least one; a leading zero is accepted)
IntOk(s) == Len(s) > 0 /\ \A i \in 1..Len(s) : s[i] \in Digits

RECURSIVE IntOf(_)
\* int(s) for a string of decimal digits
IntOf(s) ==
    IF s = <<>> THEN 0
    ELSE IntOf(SubSeq(s, 1, Len(s) - 1)) * 10 + DigitVal(s[Len(s)])

RECURSIVE SplitDot(_)
\* s.split(".")
SplitDot(s) ==
    IF \E i \in 1..Len(s) : s[i] = "."
    THEN LET i == CHOOSE k \in 1..Len(s) :
                      s[k] = "." /\ \A j \in 1..(k - 1) : s[j] # "."
         IN  <<SubSeq(s, 1, i - 1)>> \o SplitDot(SubSeq(s, i + 1, Len(s)))
    ELSE <<s>>

----------------------------------------------------------------------------
(* iOS Version *)

\* a plist value: a string, or a value that is no string (absent key: None)
StrVal(s) == [type |-> "str", s |-> s]
NoneVal == [type |-> "none", s |-> <<>>]
IntVal == [type |-> "int", s |-> <<>>]

\* an iOSVersion object: set says whether __init__ assigned the three fields
VerObj(a, b, c) == [raised |-> "none", set |-> TRUE, v |-> <<a, b, c>>]
VerUnset == [raised |-> "none", set |-> FALSE, v |-> <<>>]
VerRaise(e) == [raised |-> e, set |-> FALSE, v |-> <<>>]

\* iOSVersion.__init__(major): int() of a component that is no number raises
\* ValueError; an argument that is no str leaves the object without fields
iOSVersion(major) ==
    IF major.type = "str"
    THEN LET parts == SplitDot(major.s)
         IN  IF ~IntOk(parts[1]) THEN VerRaise("ValueError")
             ELSE IF Len(parts) > 1 /\ ~IntOk(parts[2]) THEN VerRaise("ValueError")
             ELSE IF Len(parts) > 2 /\ ~IntOk(parts[3]) THEN VerRaise("ValueError")
             ELSE VerObj(IntOf(parts[1]),
                         IF Len(parts) > 1 THEN IntOf(parts[2]) ELSE 0,
                         IF Len(parts) > 2 THEN IntOf(parts[3]) ELSE 0)
    ELSE VerUnset

\* tuple equality of (major, minor, bugfix)
Eq(a, b) == a[1] = b[1] /\ a[2] = b[2] /\ a[3] = b[3]

\* tuple < of (major, minor, bugfix)
Lt(a, b) ==
    \/ a[1] < b[1]
    \/ a[1] = b[1] /\ a[2] < b[2]
    \/ a[1] = b[1] /\ a[2] = b[2] /\ a[3] < b[3]

LeStrict(a, b) == Lt(a, b)

\* iOSVersion.__le__
Le(a, b) == Lt(a, b) \/ Eq(a, b)

TARGET_BACKUP_MIN_VER == iOSVersion(StrVal(<<"1", "1", ".", "0">>)).v

----------------------------------------------------------------------------
(* Info.plist and the version gate *)

PlistAbsent == [kind |-> "absent", haskey |-> FALSE, value |-> NoneVal]
\* present, and open() or plistlib.loads() raises
PlistGarbage == [kind |-> "garbage", haskey |-> FALSE, value |-> NoneVal]
\* a parsed dictionary without the key "Product Version"
PlistNoKey == [kind |-> "dict", haskey |-> FALSE, value |-> NoneVal]
\* a parsed dictionary holding value under "Product Version"
PlistWith(value) == [kind |-> "dict", haskey |-> TRUE, value |-> value]

\* info.get(TARGET_BACKUP_INFO_KEY)
InfoGet(info) == IF info.haskey THEN info.value ELSE NoneVal

GateRet(ok, ver) == [raised |-> "none", ok |-> ok, ver |-> ver]
GateRaise(e) == [raised |-> e, ok |-> FALSE, ver |-> None]

is_backup_compatible(plist) ==
    IF plist.kind = "absent" THEN GateRet(FALSE, None)
    ELSE IF plist.kind = "garbage" THEN GateRet(FALSE, None)
    ELSE LET target_version == iOSVersion(InfoGet(plist))
         IN  IF target_version.raised # "none"
                 THEN GateRaise(target_version.raised)
             ELSE IF ~target_version.set
                 \* __lt__ reads other.major of an object without fields
                 THEN GateRaise("AttributeError")
             ELSE GateRet(Le(TARGET_BACKUP_MIN_VER, target_version.v),
                          Some(target_version.v))

----------------------------------------------------------------------------
(* Paths *)

\* os.path.join(a, b) of posixpath: an absolute b replaces a
PathJoin(a, b) ==
    IF Len(b) > 0 /\ b[1] = "/" THEN b
    ELSE IF a = <<>> \/ a[Len(a)] = "/" THEN a \o b
    ELSE a \o <<"/">> \o b

\* --backup-path, default "."
BACKUP_DIR == <<".">>

\* os.path.join(backup_dir, file_id[:2], file_id)
FilePath(backup_dir, file_id) ==
    PathJoin(PathJoin(backup_dir, Prefix(file_id, 2)), file_id)

----------------------------------------------------------------------------
(* Manifest.db *)

APP_DOMAIN == <<"A", "p", "p", "D", "o", "m", "a", "i", "n", "-">>

\* the values the model draws the rows of Files and the arguments from
FileIDs == {<<"a", "b", "1">>, <<"a", "b", "2">>, <<"c", "d", "3">>}
Domains == {<<"c">>, APP_DOMAIN \o <<"c">>, <<"H">>}
RelPaths == {<<"p">>, <<"c", "-", "p">>}
IosPaths == {<<"p">>, <<"c", "-", "p">>, <<"H", "-", "p">>, <<"z">>}
Bundles == {<<"c">>, <<"H">>, APP_DOMAIN \o <<"c">>, <<"z">>}

Row(f, d, r) == [fileID |-> f, domain |-> d, relativePath |-> r]

\* the contents of Files with at most n rows; fileID is the table's key
Manifests(n) ==
    UNION {{{Row(f, g[f][1], g[f][2]) : f \in F} : g \in [F -> Domains \X RelPaths]}
           : F \in {G \in SUBSET FileIDs : Cardinality(G) <= n}}

DbAbsent == [state |-> "absent", rows |-> {}]
\* present, no SQLite database: execute raises sqlite3.DatabaseError
DbNotDb == [state |-> "notdb", rows |-> {}]
\* an SQLite database without the table Files: execute raises
\* sqlite3.OperationalError
DbNoSchema == [state |-> "noschema", rows |-> {}]
DbOk(rows) == [state |-> "ok", rows |-> rows]

\* the sets of paths that may exist below the backup directory
Disks ==
    SUBSET {BACKUP_DIR \o <<"/">> \o SubSeq(f, 1, 2) \o <<"/">> \o f : f \in FileIDs}

RECURSIVE Orders(_)
\* the orders in which a SELECT without ORDER BY may return the rows S
Orders(S) ==
    IF S = {} THEN {<<>>}
    ELSE UNION {{<<x>> \o t : t \in Orders(S \ {x})} : x \in S}

\* WHERE relativePath = ? OR domain || '-' || relativePath = ?
PathWhere(row, p) ==
    \/ row.relativePath = p
    \/ row.domain \o <<"-">> \o row.relativePath = p

\* WHERE domain = ?
DomainWhere(row, d) == row.domain = d

PathRows(db, ios_path) == {r \in db.rows : PathWhere(r, ios_path)}
DomainRows(db, d) == {r \in db.rows : DomainWhere(r, d)}

\* what cur.execute raises on a database in this state
ExecuteRaises(db) ==
    CASE db.state = "notdb" -> "DatabaseError"
      [] db.state = "noschema" -> "OperationalError"
      [] OTHER -> "none"

----------------------------------------------------------------------------
(* The resolvers.  An outcome records what the call returned or raised, the *)
(* rows the index returned to it, the parameters of the queries it ran,    *)
(* and how many connections it opened and closed.                          *)

Outcome(fn, arg, raised, ret, rows, queries, opened, closed) ==
    [fn |-> fn, arg |-> arg, raised |-> raised, ret |-> ret, rows |-> rows,
     queries |-> queries, opened |-> opened, closed |-> closed]

NoCall == Outcome("none", <<>>, "none", None, <<>>, <<>>, 0, 0)

ExistsAlways(dsk, file_path) == TRUE

\* os.path.exists(file_path)
Exists(dsk, file_path) == file_path \in dsk

\* find_ios_backup_file; order is the order in which the index returns the
\* matching rows
find_ios_backup_file(db, dsk, backup_dir, ios_path, order) ==
    IF db.state = "absent"
    THEN Outcome("find", ios_path, "none", None, <<>>, <<>>, 0, 0)
    ELSE IF ExecuteRaises(db) = "OperationalError"
    THEN Outcome("find", ios_path, "none", None, <<>>, <<ios_path>>, 1, 1)
    ELSE IF ExecuteRaises(db) # "none"
    THEN Outcome("find", ios_path, ExecuteRaises(db), None, <<>>, <<ios_path>>, 1, 0)
    ELSE IF order = <<>>
    THEN Outcome("find", ios_path, "none", None, order, <<ios_path>>, 1, 1)
    ELSE LET file_id == order[1].fileID
             file_path == FilePath(backup_dir, file_id)
         IN  IF Exists(dsk, file_path)
             THEN Outcome("find", ios_path, "none", Some(file_path), order,
                          <<ios_path>>, 1, 1)
             ELSE Outcome("find", ios_path, "none", None, order, <<ios_path>>, 1, 1)

\* f"AppDomain-{bundle_identifier}"
Prefixed(bundle_identifier) == APP_DOMAIN \o bundle_identifier

RECURSIVE BackupPaths(_, _)
\* the loop over rows: (os.path.join(backup_dir, file_id[:2], file_id), rel_path)
BackupPaths(backup_dir, rows) ==
    IF rows = <<>> THEN <<>>
    ELSE <<<<FilePath(backup_dir, rows[1].fileID), rows[1].relativePath>>>>
         \o BackupPaths(backup_dir, Tail(rows))

RetryAlways(rows) == TRUE

\* "if not rows" before the prefixed query
Retry(rows) == rows = <<>>

\* get_app_folders_from_backup; order1 and order2 are the orders in which the
\* index returns the rows of the exact and of the prefixed query
get_app_folders_from_backup(db, backup_dir, bundle_identifier, order1, order2) ==
    IF db.state = "absent"
    THEN Outcome("bundle", bundle_identifier, "none", None, <<>>, <<>>, 0, 0)
    ELSE IF ExecuteRaises(db) # "none"
    THEN Outcome("bundle", bundle_identifier, ExecuteRaises(db), None, <<>>,
                 <<bundle_identifier>>, 1, 0)
    ELSE LET retry == Retry(order1)
             rows == IF retry THEN order2 ELSE order1
             queries == IF retry
                        THEN <<bundle_identifier, Prefixed(bundle_identifier)>>
                        ELSE <<bundle_identifier>>
         IN  IF rows = <<>>
             THEN Outcome("bundle", bundle_identifier, "none", None, rows, queries, 1, 1)
             ELSE Outcome("bundle", bundle_identifier, "none",
                          Some(BackupPaths(backup_dir, rows)), rows, queries, 1, 1)

----------------------------------------------------------------------------
(* main *)

\* the truth value of a resolver's result: None and empty values are false
Truthy(ret) == ~ret.none /\ ret.v # <<>>

DispatchBundleFirst(a) ==
    IF ~a.bundle.none THEN "bundle"
    ELSE IF ~a.path.none THEN "find"
    ELSE "none"

\* "if args.path is not None: ... elif args.bundle is not None: ..."
Dispatch(a) ==
    IF ~a.path.none THEN "find"
    ELSE IF ~a.bundle.none THEN "bundle"
    ELSE "none"

LookupExitAlwaysZero(ret) == 0

\* exit(0) after a true result, exit(-1) after the message that follows
LookupExit(ret) == IF Truthy(ret) THEN 0 ELSE -1

\* the Info.plist states and arguments main is run on
MainPlists ==
    {PlistAbsent, PlistGarbage, PlistNoKey, PlistWith(IntVal)}
    \cup {PlistWith(StrVal(s)) :
            s \in {<<"x">>, <<"1", "0", ".", "0">>, <<"1", "1">>,
                   <<"1", "2", ".", "1", ".", "2">>}}
MainDbs == {DbAbsent, DbNotDb, DbNoSchema} \cup {DbOk(m) : m \in Manifests(MainRows)}
MainArgs ==
    [path : {None} \cup {Some(p) : p \in {<<"p">>, <<"z">>}},
     bundle : {None} \cup {Some(b) : b \in {<<"c">>, <<"z">>}}]

Init ==
    /\ info_plist \in MainPlists
    /\ manifest_db \in MainDbs
    /\ disk \in Disks
    /\ args \in MainArgs
    /\ pc = "start"
    /\ gate = GateRet(FALSE, None)
    /\ res = NoCall
    /\ calls = <<>>
    /\ out = <<>>
    /\ exit_code = 0
    /\ open_conns = 0

\* main up to the end of "if not result": the gate, and exit(-2)
MainGate ==
    /\ pc = "start"
    /\ LET g == is_backup_compatible(info_plist)
       IN  /\ gate' = g
           /\ calls' = Append(calls, "is_backup_compatible")
           /\ IF g.raised # "none"
              THEN pc' = "crashed" /\ UNCHANGED <<out, exit_code>>
              ELSE IF ~g.ok
              THEN /\ pc' = "exited"
                   /\ out' = Append(out, "not supported")
                   /\ exit_code' = -2
              ELSE pc' = "dispatch" /\ UNCHANGED <<out, exit_code>>
    /\ UNCHANGED <<info_plist, manifest_db, disk, args, res, open_conns>>

\* what main does with a resolver's outcome r
MainAfter(r, fn, found, notfound) ==
    /\ res' = r
    /\ calls' = Append(calls, fn)
    /\ open_conns' = open_conns + r.opened - r.closed
    /\ IF r.raised # "none"
       THEN pc' = "crashed" /\ UNCHANGED <<out, exit_code>>
       ELSE /\ pc' = "exited"
            /\ out' = Append(out, IF Truthy(r.ret) THEN found ELSE notfound)
            /\ exit_code' = LookupExit(r.ret)
    /\ UNCHANGED <<info_plist, manifest_db, disk, args, gate>>

\* the branch "if args.path is not None"
MainFind ==
    /\ pc = "dispatch"
    /\ Dispatch(args) = "find"
    /\ \E order \in Orders(PathRows(manifest_db, args.path.v)) :
          MainAfter(find_ios_backup_file(manifest_db, disk, BACKUP_DIR,
                                         args.path.v, order),
                    "find_ios_backup_file", "Found", "File not found.")

\* the branch "elif args.bundle is not None"
MainBundle ==
    /\ pc = "dispatch"
    /\ Dispatch(args) = "bundle"
    /\ \E order1 \in Orders(DomainRows(manifest_db, args.bundle.v)),
          order2 \in Orders(DomainRows(manifest_db, Prefixed(args.bundle.v))) :
          MainAfter(get_app_folders_from_backup(manifest_db, BACKUP_DIR,
                                                args.bundle.v, order1, order2),
                    "get_app_folders_from_backup", "Found:", "No paths not found.")

\* neither -d nor -b: main returns, and the process ends with code 0
MainNoLookup ==
    /\ pc = "dispatch"
    /\ Dispatch(args) = "none"
    /\ pc' = "exited"
    /\ exit_code' = 0
    /\ UNCHANGED <<info_plist, manifest_db, disk, args, gate, res, calls,
                   out, open_conns>>

Next == MainGate \/ MainFind \/ MainBundle \/ MainNoLookup

Spec == Init /\ [][Next]_vars

----------------------------------------------------------------------------
(* The version gate alone, on every Info.plist up to MaxVerLen characters *)

VerChars == {"0", "1", "2", ".", "x"}

RECURSIVE Strings(_)
\* the strings over VerChars of at most n characters
Strings(n) ==
    IF n = 0 THEN {<<>>}
    ELSE Strings(n - 1)
         \cup {Append(s, c) : s \in {t \in Strings(n - 1) : Len(t) = n - 1},
                              c \in VerChars}

GatePlists ==
    {PlistAbsent, PlistGarbage, PlistNoKey, PlistWith(IntVal)}
    \cup {PlistWith(StrVal(s)) :
            s \in Strings(MaxVerLen) \cup {<<"1", "2", ".", "1", ".", "2">>}}

InitGate ==
    /\ info_plist \in GatePlists
    /\ manifest_db = DbAbsent
    /\ disk = {}
    /\ args = [path |-> None, bundle |-> None]
    /\ pc = "start"
    /\ gate = GateRet(FALSE, None)
    /\ res = NoCall
    /\ calls = <<>>
    /\ out = <<>>
    /\ exit_code = 0
    /\ open_conns = 0

\* one call of is_backup_compatible(backup_dir)
GateCall ==
    /\ pc = "start"
    /\ gate' = is_backup_compatible(info_plist)
    /\ pc' = IF gate'.raised # "none" THEN "raised" ELSE "returned"
    /\ UNCHANGED <<info_plist, manifest_db, disk, args, res, calls, out,
                   exit_code, open_conns>>

NextGate == GateCall

SpecGate == InitGate /\ [][NextGate]_vars

----------------------------------------------------------------------------
(* The resolvers alone, called again and again on a backup nobody modifies *)

ResolveDbs == {DbAbsent, DbNotDb, DbNoSchema} \cup {DbOk(m) : m \in Manifests(MaxRows)}

InitResolve ==
    /\ info_plist = PlistAbsent
    /\ manifest_db \in ResolveDbs
    /\ disk \in Disks
    /\ args = [path |-> None, bundle |-> None]
    /\ pc = "idle"
    /\ gate = GateRet(FALSE, None)
    /\ res = NoCall
    /\ calls = <<>>
    /\ out = <<>>
    /\ exit_code = 0
    /\ open_conns = 0

\* what a call with outcome r leaves behind
Called(r) ==
    /\ res' = r
    /\ open_conns' = open_conns + r.opened - r.closed
    /\ pc' = IF r.raised # "none" THEN "raised" ELSE "returned"
    /\ UNCHANGED <<info_plist, manifest_db, disk, args, gate, calls, out, exit_code>>

\* one call of find_ios_backup_file(backup_dir, ios_path)
CallFind ==
    /\ open_conns < MaxOpen
    /\ \E ios_path \in IosPaths :
       \E order \in Orders(PathRows(manifest_db, ios_path)) :
          Called(find_ios_backup_file(manifest_db, disk, BACKUP_DIR, ios_path, order))

\* one call of get_app_folders_from_backup(backup_dir, bundle_identifier)
CallBundle ==
    /\ open_conns < MaxOpen
    /\ \E b \in Bundles :
       \E order1 \in Orders(DomainRows(manifest_db, b)),
          order2 \in Orders(DomainRows(manifest_db, Prefixed(b))) :
          Called(get_app_folders_from_backup(manifest_db, BACKUP_DIR, b, order1, order2))

NextResolve == CallFind \/ CallBundle

SpecResolve == InitResolve /\ [][NextResolve]_vars

----------------------------------------------------------------------------
(* Vocabulary of the properties, written without the operators of the model *)

\* {backupDir}/{fileID[:2]}/{fileID}
Resolved(f) == BACKUP_DIR \o <<"/">> \o SubSeq(f, 1, 2) \o <<"/">> \o f

\* row r answers the Path Resolver's query for logical path p
Answers(r, p) == r.relativePath = p \/ r.domain \o <<"-">> \o r.relativePath = p

DotsOf(s) == {i \in 1..Len(s) : s[i] = "."}

\* s is "X", "X.Y" or "X.Y.Z" with X, Y, Z written in decimal digits
IsVersionForm(s) ==
    /\ Len(s) > 0
    /\ \A i \in 1..Len(s) : s[i] \in Digits \cup {"."}
    /\ Cardinality(DotsOf(s)) <= 2
    /\ s[1] # "." /\ s[Len(s)] # "."
    /\ \A i \in 1..(Len(s) - 1) : ~(s[i] = "." /\ s[i + 1] = ".")

\* s is digits and single dots between them, with any number of components
IsDottedNumeric(s) ==
    /\ Len(s) > 0
    /\ \A i \in 1..Len(s) : s[i] \in Digits \cup {"."}
    /\ s[1] # "." /\ s[Len(s)] # "."
    /\ \A i \in 1..(Len(s) - 1) : ~(s[i] = "." /\ s[i + 1] = ".")

RECURSIVE Decimal(_, _)
\* the number the digits s[i..] denote, by positional weight
Decimal(s, i) ==
    IF i > Len(s) THEN 0
    ELSE DigitVal(s[i]) * 10 ^ (Len(s) - i) + Decimal(s, i + 1)

\* the k-th dot of s, or Len(s) + 1 when s has fewer dots
DotAt(s, k) ==
    LET later == {i \in DotsOf(s) : Cardinality({j \in DotsOf(s) : j < i}) = k - 1}
    IN  IF later = {} THEN Len(s) + 1 ELSE CHOOSE i \in later : TRUE

\* (X, Y, Z) of a string of version form
TripleOf(s) ==
    LET d1 == DotAt(s, 1)
        d2 == DotAt(s, 2)
    IN  <<Decimal(SubSeq(s, 1, d1 - 1), 1),
          IF d1 <= Len(s) THEN Decimal(SubSeq(s, d1 + 1, d2 - 1), 1) ELSE 0,
          IF d2 <= Len(s) THEN Decimal(SubSeq(s, d2 + 1, Len(s)), 1) ELSE 0>>

\* (11, 0, 0) <= t in lexicographic order
AtLeastMinimum(t) ==
    \/ t[1] > 11
    \/ t[1] = 11 /\ t[2] > 0
    \/ t[1] = 11 /\ t[2] = 0 /\ t[3] >= 0

IsStrPlist == info_plist.kind = "dict" /\ info_plist.haskey /\ info_plist.value.type = "str"

----------------------------------------------------------------------------
(* The claims *)

\* C1: a run of main never ends by an exception that escapes
\* is_backup_compatible, find_ios_backup_file or get_app_folders_from_backup,
\* and a run that ends ends with one of the exit codes 0, -1, -2.
C1_NoEscapingException ==
    /\ pc # "crashed"
    /\ pc = "exited" => exit_code \in {0, -1, -2}

\* C2: is_backup_compatible returns (False, None) when Info.plist is absent,
\* cannot be read or parsed, has no "Product Version" key, or holds a value
\* under it that is not a dotted numeric string.
C2_SoftFailure ==
    (/\ pc # "start"
     /\ \/ info_plist.kind \in {"absent", "garbage"}
        \/ ~info_plist.haskey
        \/ info_plist.value.type # "str"
        \/ ~IsDottedNumeric(info_plist.value.s))
    => gate = GateRet(FALSE, None)

\* C3: a non-null result of find_ios_backup_file is backup_dir/fileID[0:2]/fileID
\* for the fileID of a row whose relativePath, or domain-relativePath, equals
\* ios_path, and that path exists on disk.
C3_FoundPathIsResolvedAndExists ==
    (res.fn = "find" /\ res.raised = "none" /\ ~res.ret.none)
    => /\ \E r \in manifest_db.rows :
             Answers(r, res.arg) /\ res.ret.v = Resolved(r.fileID)
       /\ res.ret.v \in disk

\* a file found through the domain-qualified form of the path alone
C3_Witness ==
    /\ res.fn = "find" /\ ~res.ret.none
    /\ \E r \in manifest_db.rows :
          /\ r.relativePath # res.arg
          /\ r.domain \o <<"-">> \o r.relativePath = res.arg
          /\ res.ret.v = Resolved(r.fileID)

\* C4: find_ios_backup_file returns null and raises nothing when Manifest.db
\* is absent, when the query fails, when no row matches, and when the first
\* returned matching row derives a path that is not on disk (also when a later
\* matching row's file is).
C4_NullWithoutException ==
    (/\ res.fn = "find"
     /\ \/ manifest_db.state \in {"absent", "notdb", "noschema"}
        \/ \A r \in manifest_db.rows : ~Answers(r, res.arg)
        \/ res.rows # <<>> /\ Resolved(res.rows[1].fileID) \notin disk)
    => res.raised = "none" /\ res.ret.none

\* C5: get_app_folders_from_backup returns one pair (resolved file,
\* relativePath) for each row with domain B if there is one, else for each row
\* with domain "AppDomain-"+B if there is one, else null; in the order the
\* index returned the rows; the prefixed query is run at most once and only
\* after the exact query returned nothing; files need not exist on disk.
C5_BundleRows ==
    (res.fn = "bundle" /\ manifest_db.state = "ok")
    => LET B == res.arg
           exact == {r \in manifest_db.rows : r.domain = B}
           prefixed == {r \in manifest_db.rows : r.domain = APP_DOMAIN \o B}
           chosen == IF exact # {} THEN exact ELSE prefixed
       IN  /\ res.raised = "none"
           /\ res.queries = IF exact # {} THEN <<B>> ELSE <<B, APP_DOMAIN \o B>>
           /\ IF chosen = {} THEN res.ret.none
              ELSE /\ ~res.ret.none
                   /\ Len(res.ret.v) = Cardinality(chosen)
                   /\ {res.rows[i] : i \in 1..Len(res.rows)} = chosen
                   /\ Len(res.rows) = Len(res.ret.v)
                   /\ \A i \in 1..Len(res.ret.v) :
                         res.ret.v[i] = <<Resolved(res.rows[i].fileID),
                                          res.rows[i].relativePath>>

\* two rows returned through the prefix retry, one of them without its file
C5_Witness ==
    /\ res.fn = "bundle" /\ ~res.ret.none
    /\ Len(res.queries) = 2
    /\ Len(res.ret.v) = 2
    /\ \E i \in 1..2 : res.ret.v[i][1] \notin disk

\* C6: main exits -2 whenever the compatibility check returns false; else 0
\* when the resolver returned a file or a non-empty list; else -1 when a
\* resolver was invoked and returned null; and 0, with no resolver invoked
\* and nothing printed, when neither -d nor -b was given.
C6_ExitCodes ==
    /\ (pc # "start" /\ gate.raised = "none" /\ ~gate.ok)
       => pc = "exited" /\ exit_code = -2 /\ Len(calls) = 1
    /\ (pc = "exited" /\ gate.ok /\ Len(calls) = 2 /\ ~res.ret.none)
       => exit_code = 0 /\ res.ret.v # <<>>
    /\ (pc = "exited" /\ gate.ok /\ Len(calls) = 2 /\ res.ret.none)
       => exit_code = -1
    /\ (pc = "exited" /\ gate.ok /\ args.path.none /\ args.bundle.none)
       => exit_code = 0 /\ Len(calls) = 1 /\ out = <<>>
    /\ (pc = "exited" /\ gate.ok /\ ~(args.path.none /\ args.bundle.none))
       => Len(calls) = 2

\* a lookup that was performed and found nothing
C6_Witness ==
    /\ pc = "exited" /\ gate.ok
    /\ res.fn = "bundle" /\ res.ret.none /\ manifest_db.state = "ok"
    /\ exit_code = -1

\* C7: is_backup_compatible is called before any resolver; no resolver is
\* called when it returned false; at most one resolver is called: the Path
\* Resolver when -d is given (also with -b), the Bundle Resolver only when -b
\* is given without -d.
C7_GateThenOneResolver ==
    /\ calls # <<>> => calls[1] = "is_backup_compatible"
    /\ Len(calls) <= 2
    /\ Len(calls) = 2
       => /\ gate.raised = "none" /\ gate.ok
          /\ calls[2] \in {"find_ios_backup_file", "get_app_folders_from_backup"}
          /\ calls[2] = "find_ios_backup_file" <=> ~args.path.none
          /\ calls[2] = "get_app_folders_from_backup"
                <=> (args.path.none /\ ~args.bundle.none)
    /\ (pc \in {"exited", "crashed"} /\ gate.raised = "none" /\ gate.ok
        /\ ~(args.path.none /\ args.bundle.none))
       => Len(calls) = 2

\* -d and -b given together: the Path Resolver ran, after the gate
C7_Witness ==
    /\ ~args.path.none /\ ~args.bundle.none
    /\ calls = <<"is_backup_compatible", "find_ios_backup_file">>

\* C8: a version string "X", "X.Y" or "X.Y.Z" parses to (X, Y, Z) with
\* missing components 0, and is_backup_compatible returns (c, that triple)
\* with c true exactly when (11, 0, 0) <= (X, Y, Z); "10.0" gives
\* (false, (10,0,0)) and "12.1.2" gives (true, (12,1,2)).
C8_ParseAndCompare ==
    /\ (pc # "start" /\ IsStrPlist /\ IsVersionForm(info_plist.value.s))
       => /\ iOSVersion(info_plist.value) = VerObj(TripleOf(info_plist.value.s)[1],
                                                   TripleOf(info_plist.value.s)[2],
                                                   TripleOf(info_plist.value.s)[3])
          /\ gate = GateRet(AtLeastMinimum(TripleOf(info_plist.value.s)),
                            Some(TripleOf(info_plist.value.s)))
    /\ (pc # "start" /\ info_plist = PlistWith(StrVal(<<"1", "0", ".", "0">>)))
       => gate = GateRet(FALSE, Some(<<10, 0, 0>>))
    /\ (pc # "start"
        /\ info_plist = PlistWith(StrVal(<<"1", "2", ".", "1", ".", "2">>)))
       => gate = GateRet(TRUE, Some(<<12, 1, 2>>))

\* the minimum itself, written with one component missing
C8_Witness ==
    /\ pc = "returned"
    /\ info_plist = PlistWith(StrVal(<<"1", "1", ".", "0">>))
    /\ gate = GateRet(TRUE, Some(<<11, 0, 0>>))

C10_ConnectionsClosed == open_conns = 0 /\ res.opened = res.closed

====
